---------------------------- MODULE Spec2Model ----------------------------
(***************************************************************************)
(* A model of the two Zoho CRM scripts, fetch_leads.py (the export script) *)
(* and update_lead_status.py (the update script).  One run of one script   *)
(* is one behaviour: main() is cut into steps at its interactions with the *)
(* outside (file system, operator, token endpoint, CRM endpoint).          *)
(*                                                                         *)
(* Text that the code transforms (the operator's answer, the lines of the  *)
(* ID file) is a sequence of one-character strings.  Parsed JSON / Python  *)
(* values are tagged records.  A Python exception is the name of its       *)
(* class; the class hierarchy decides which except clause takes it.        *)
(***************************************************************************)
EXTENDS Naturals, Sequences, FiniteSets, TLC

VARIABLES
    script,         \* which script runs: "fetch" | "update"
    CLIENT_ID,      \* os.getenv("ZOHO_CLIENT_ID"): None or a string
    CLIENT_SECRET,  \* os.getenv("ZOHO_CLIENT_SECRET")
    REFRESH_TOKEN,  \* os.getenv("ZOHO_REFRESH_TOKEN")
    folder,         \* whether output_data exists
    pc,             \* position of main()
    input_file,     \* the lines of INPUT_FILE as read
    lead_ids,       \* lead_ids_to_update
    answer,         \* what the operator typed at the prompt
    token_reply,    \* what the token endpoint answered
    access_token,   \* the access token main() holds
    http,           \* the HTTP requests issued so far, in order
    response,       \* the parsed body of the API call (leads_data / update_response)
    out,            \* the user-facing messages printed so far
    reports,        \* the per-item results printed by process_update_response
    csv_file,       \* the CSV output file
    json_file,      \* the JSON output file
    error           \* the exception that ended the run, and the clause that took it

vars == <<script, CLIENT_ID, CLIENT_SECRET, REFRESH_TOKEN, folder, pc, input_file,
          lead_ids, answer, token_reply, access_token, http, response, out,
          reports, csv_file, json_file, error>>

(***************************************************************************)
(* Bounds of the model.                                                    *)
(***************************************************************************)
MaxLines == 2       \* lines in the ID file
MaxLineLen == 2     \* characters in a line of the ID file
MaxAnswerLen == 4   \* characters in the operator's answer
MaxItems == 2       \* items in the data list of an update response
MaxLeads == 3       \* records in the data list of an export response

(***************************************************************************)
(* Python / JSON values.                                                   *)
(***************************************************************************)
None == [t |-> "null"]
JStr(s) == [t |-> "str", v |-> s]
JNum(n) == [t |-> "num", v |-> n]
JList(q) == [t |-> "list", v |-> q]
JObj(m) == [t |-> "obj", v |-> m]
NoKeys == [k \in {} |-> None]

\* Python truthiness (bool(x)).
Truthy(x) ==
    CASE x.t = "null" -> FALSE
      [] x.t = "str" -> x.v # ""
      [] x.t = "num" -> x.v # 0
      [] x.t = "list" -> Len(x.v) > 0
      [] x.t = "obj" -> DOMAIN x.v # {}

\* dict.get(key, default)
Get(m, key, default) == IF key \in DOMAIN m THEN m[key] ELSE default

\* All sequences over S of length at most n.
SeqsUpTo(S, n) == UNION {[1..k -> S] : k \in 0..n}

(***************************************************************************)
(* Exceptions.  Ancestors(c) is the set of classes an exception of class c *)
(* is an instance of.                                                      *)
(***************************************************************************)
Ancestors(c) ==
    CASE c = "HTTPError" -> {"HTTPError", "RequestException", "OSError", "Exception"}
      [] c = "ConnectionError" -> {"ConnectionError", "RequestException", "OSError", "Exception"}
      [] c = "JSONDecodeError" -> {"JSONDecodeError", "RequestException", "OSError", "ValueError", "Exception"}
      [] c = "FileNotFoundError" -> {"FileNotFoundError", "OSError", "Exception"}
      [] c = "PermissionError" -> {"PermissionError", "OSError", "Exception"}
      [] c = "OSError" -> {"OSError", "Exception"}
      [] c = "UnicodeDecodeError" -> {"UnicodeDecodeError", "ValueError", "Exception"}
      [] c = "ValueError" -> {"ValueError", "Exception"}
      [] OTHER -> {c, "Exception"}

IsA(c, cls) == cls \in Ancestors(c)

\* The first except clause of `clauses` that takes an exception of class c,
\* "uncaught" when none does.
RECURSIVE FirstClause(_, _)
FirstClause(c, clauses) ==
    IF clauses = <<>> THEN "uncaught"
    ELSE IF IsA(c, Head(clauses)) THEN Head(clauses)
    ELSE FirstClause(c, Tail(clauses))

NoError == [cls |-> "none", at |-> "none", clause |-> "none"]


(***************************************************************************)
(* Configuration (module level constants of the scripts).                  *)
(***************************************************************************)
FIELD_TO_UPDATE == "Lead_Status"
NEW_STATUS_VALUE == "Junk Lead"
CUSTOM_VIEW_ID == "1649349000008182385"
RECORDS_PER_PAGE == 200
ZOHO_ACCOUNTS_URL == "https://accounts.zoho.com/oauth/v2/token"
ZOHO_API_URL == "https://www.zohoapis.com/crm/v8/Leads"

\* A string of the program given as a sequence of characters (a lead ID).
JText(q) == [t |-> "text", v |-> q]

(***************************************************************************)
(* main(): its except clauses, in order, and what each prints.             *)
(***************************************************************************)
MainClauses(s) ==
    IF s = "update"
    THEN <<"ValueError", "FileNotFoundError", "RequestException", "Exception">>
    ELSE <<"ValueError", "RequestException", "Exception">>

MainMessage(clause) ==
    CASE clause = "ValueError" -> "Configuration Error"
      [] clause = "FileNotFoundError" -> "Error: Input file not found"
      [] clause = "RequestException" -> "API Request Error"
      [] clause = "Exception" -> "An unexpected error occurred"

\* The clause of main() that takes an exception of class c raised inside its try.
MainCatch(c) == FirstClause(c, MainClauses(script))

\* An exception of class c reaches main()'s try block after `printed` was
\* printed: the matching clause prints its message and main() returns.
Raise(c, printed) ==
    /\ error' = [cls |-> c, at |-> pc, clause |-> MainCatch(c)]
    /\ out' = IF MainCatch(c) = "uncaught" THEN out \o printed
              ELSE (out \o printed) \o <<MainMessage(MainCatch(c))>>
    /\ pc' = "done"

\* No exception: main() goes on to `next` after printing `printed`.
Continue(next, printed) ==
    /\ pc' = next
    /\ out' = out \o printed
    /\ UNCHANGED error

(***************************************************************************)
(* HTTP.  A reply is [status, json, body]: status 0 stands for no reply    *)
(* (a network fault), json says whether the body parses as JSON, body is   *)
(* the parsed body.                                                        *)
(***************************************************************************)
Reply(status, json, body) == [status |-> status, json |-> json, body |-> body]

\* response.raise_for_status(): HTTPError for 4xx and 5xx.
RaiseForStatus(status) == 400 <= status /\ status < 600

\* requests.<method>(...); response.raise_for_status(); response.json():
\* the class of the exception raised, "none" when the body is returned.
RequestFault(reply) ==
    IF reply.status = 0 THEN "ConnectionError"
    ELSE IF RaiseForStatus(reply.status) THEN "HTTPError"
    ELSE IF ~reply.json THEN "JSONDecodeError"
    ELSE "none"

(***************************************************************************)
(* get_access_token (the same in both scripts).                            *)
(***************************************************************************)
\* all([CLIENT_ID, CLIENT_SECRET, REFRESH_TOKEN])
CredentialsPresentNotNone == CLIENT_ID # None /\ CLIENT_SECRET # None /\ REFRESH_TOKEN # None
CredentialsPresent == Truthy(CLIENT_ID) /\ Truthy(CLIENT_SECRET) /\ Truthy(REFRESH_TOKEN)

TokenPayload ==
    JObj([refresh_token |-> REFRESH_TOKEN, client_id |-> CLIENT_ID,
          client_secret |-> CLIENT_SECRET, grant_type |-> JStr("refresh_token")])

\* The try block of get_access_token on the reply of the token endpoint:
\* [exc |-> class raised or "none", token |-> the token returned].
TokenResultUnchecked(reply) ==
    IF RequestFault(reply) # "none" THEN [exc |-> RequestFault(reply), token |-> None]
    ELSE IF reply.body.t # "obj" THEN [exc |-> "AttributeError", token |-> None]
    ELSE [exc |-> "none", token |-> Get(reply.body.v, "access_token", None)]

TokenResult(reply) ==
    IF RequestFault(reply) # "none" THEN [exc |-> RequestFault(reply), token |-> None]
    ELSE IF reply.body.t # "obj" THEN [exc |-> "AttributeError", token |-> None]
    ELSE IF ~Truthy(Get(reply.body.v, "access_token", None))
         THEN [exc |-> "ValueError", token |-> None]
    ELSE [exc |-> "none", token |-> reply.body.v["access_token"]]

GetAccessToken(replies) ==
    /\ pc = "token"
    /\ IF ~CredentialsPresent
       THEN /\ Raise("ValueError", <<>>)
            /\ UNCHANGED <<http, token_reply, access_token>>
       ELSE \E reply \in replies :
              /\ http' = Append(http, [method |-> "POST", url |-> ZOHO_ACCOUNTS_URL,
                                       auth |-> None, body |-> TokenPayload])
              /\ token_reply' = reply
              /\ IF TokenResult(reply).exc # "none"
                 THEN /\ Raise(TokenResult(reply).exc, <<>>)
                      /\ UNCHANGED access_token
                 ELSE /\ access_token' = TokenResult(reply).token
                      /\ Continue("api", <<>>)
    /\ UNCHANGED <<script, CLIENT_ID, CLIENT_SECRET, REFRESH_TOKEN, folder, input_file,
                   lead_ids, answer, response, reports, csv_file, json_file>>

(***************************************************************************)
(* update_lead_status.py                                                   *)
(***************************************************************************)
IsSpace(c) == c \in {" ", "\t", "\r", "\n"}

RECURSIVE LStrip(_)
LStrip(s) == IF s # <<>> /\ IsSpace(Head(s)) THEN LStrip(Tail(s)) ELSE s

RECURSIVE RStrip(_)
RStrip(s) == IF s # <<>> /\ IsSpace(s[Len(s)]) THEN RStrip(SubSeq(s, 1, Len(s) - 1)) ELSE s

\* str.strip()
Strip(s) == RStrip(LStrip(s))

\* The loop of read_lead_ids_from_file over the lines of the file.
RECURSIVE read_lead_ids_unstripped(_)
read_lead_ids_unstripped(lines) ==
    IF lines = <<>> THEN <<>>
    ELSE IF Strip(Head(lines)) # <<>>
         THEN <<Head(lines)>> \o read_lead_ids_unstripped(Tail(lines))
         ELSE read_lead_ids_unstripped(Tail(lines))

RECURSIVE read_lead_ids_from_file(_)
read_lead_ids_from_file(lines) ==
    IF lines = <<>> THEN <<>>
    ELSE IF Strip(Head(lines)) # <<>>
         THEN <<Strip(Head(lines))>> \o read_lead_ids_from_file(Tail(lines))
         ELSE read_lead_ids_from_file(Tail(lines))

\* What opening and reading INPUT_FILE can do: the lines, or an exception.
FileOutcomes(files) ==
    {[exc |-> "none", lines |-> f] : f \in files}
    \cup {[exc |-> c, lines |-> <<>>] :
            c \in {"FileNotFoundError", "PermissionError", "UnicodeDecodeError"}}

\* main(), lines 154-160.
ReadLeadIds(files) ==
    /\ script = "update"
    /\ pc = "start"
    /\ \E r \in FileOutcomes(files) :
         IF r.exc # "none"
         THEN /\ Raise(r.exc, <<>>)
              /\ UNCHANGED <<input_file, lead_ids>>
         ELSE /\ input_file' = r.lines
              /\ lead_ids' = read_lead_ids_from_file(r.lines)
              /\ IF read_lead_ids_from_file(r.lines) = <<>>
                 THEN Continue("done", <<"No Lead IDs found">>)
                 ELSE Continue("prompt", <<"Found Lead IDs to update">>)
    /\ UNCHANGED <<script, CLIENT_ID, CLIENT_SECRET, REFRESH_TOKEN, folder, answer,
                   token_reply, access_token, http, response, reports, csv_file,
                   json_file>>

\* str.lower() on the characters the model uses.
LowerChar(c) ==
    CASE c = "Y" -> "y"
      [] c = "E" -> "e"
      [] c = "S" -> "s"
      [] c = "N" -> "n"
      [] c = "O" -> "o"
      [] OTHER -> c

Lower(s) == [i \in 1..Len(s) |-> LowerChar(s[i])]

\* confirm = input(...).lower(); confirm != 'yes' cancels.
IsConfirmedStripped(a) == Strip(Lower(a)) = <<"y", "e", "s">>
IsConfirmed(a) == Lower(a) = <<"y", "e", "s">>

\* main(), lines 161-165.  input() raises EOFError when stdin is closed.
Confirm(answers) ==
    /\ script = "update"
    /\ pc = "prompt"
    /\ \/ \E a \in answers :
            /\ answer' = a
            /\ IF IsConfirmed(a) THEN Continue("token", <<>>)
               ELSE Continue("done", <<"Operation cancelled by user.">>)
       \/ /\ Raise("EOFError", <<>>)
          /\ UNCHANGED answer
    /\ UNCHANGED <<script, CLIENT_ID, CLIENT_SECRET, REFRESH_TOKEN, folder, input_file,
                   lead_ids, token_reply, access_token, http, response, reports,
                   csv_file, json_file>>

\* The data payload built by update_lead_statuses, lines 86-94.
UpdateItem(lead_id) ==
    JObj([k \in {"id", FIELD_TO_UPDATE} |->
            IF k = "id" THEN JText(lead_id) ELSE JStr(NEW_STATUS_VALUE)])

UpdateBody(ids) == JObj([data |-> JList([i \in 1..Len(ids) |-> UpdateItem(ids[i])])])

\* What the HTTPError clause of update_lead_statuses prints (lines 109-113).
HttpErrorPrinted(reply) ==
    IF reply.json THEN <<"API Error Details">>
    ELSE <<"Could not parse error response as JSON">>

\* update_lead_statuses, called at main() lines 168-174.
UpdateLeadStatuses(replies) ==
    /\ script = "update"
    /\ pc = "api"
    /\ http' = Append(http, [method |-> "PUT", url |-> ZOHO_API_URL,
                             auth |-> access_token, body |-> UpdateBody(lead_ids)])
    /\ \E reply \in replies :
         IF RequestFault(reply) = "HTTPError"
         THEN Raise("HTTPError", HttpErrorPrinted(reply)) /\ UNCHANGED response
         ELSE IF RequestFault(reply) # "none"
         THEN Raise(RequestFault(reply), <<>>) /\ UNCHANGED response
         ELSE response' = reply.body /\ Continue("process", <<>>)
    /\ UNCHANGED <<script, CLIENT_ID, CLIENT_SECRET, REFRESH_TOKEN, folder, input_file,
                   lead_ids, answer, token_reply, access_token, reports, csv_file,
                   json_file>>


\* 'data' in x  (Python's `in` on the parsed body): "TypeError" when x is not
\* a container.  Bodies of the model are null, numbers, lists and objects.
Contains(x, key) ==
    CASE x.t = "obj" -> IF key \in DOMAIN x.v THEN "yes" ELSE "no"
      [] x.t = "list" -> IF \E i \in 1..Len(x.v) : x.v[i] = JStr(key) THEN "yes" ELSE "no"
      [] OTHER -> "TypeError"

\* x['data'] can be evaluated (a list cannot be indexed by a string).
Indexable(x) == x.t = "obj"

\* The guard of process_update_response, line 124, evaluated left to right:
\* "unexpected" (the warning branch), "list" (go on to the loop), or
\* "TypeError".
UpdateResponseShape(x) ==
    IF ~Truthy(x) THEN "unexpected"
    ELSE IF Contains(x, "data") = "TypeError" THEN "TypeError"
    ELSE IF Contains(x, "data") = "no" THEN "unexpected"
    ELSE IF ~Indexable(x) THEN "TypeError"
    ELSE IF x.v["data"].t # "list" THEN "unexpected"
    ELSE "list"

\* status == "success" and code == "SUCCESS", line 139.
IsSuccess(status, code) == status = JStr("success") /\ code = JStr("SUCCESS")

\* The body of the loop of process_update_response on one item, lines
\* 133-148: the exception raised, or the report printed.
ItemFault(result) ==
    IF result.t # "obj" THEN "AttributeError"
    ELSE IF Get(result.v, "details", JObj(NoKeys)).t # "obj" THEN "AttributeError"
    ELSE "none"

ItemReport(result) ==
    LET status == Get(result.v, "status", None)
        code == Get(result.v, "code", None)
        message == Get(result.v, "message", None)
        details == Get(result.v, "details", JObj(NoKeys))
        record_id == Get(details.v, "id", JStr("N/A"))
    IN  IF IsSuccess(status, code)
        THEN [kind |-> "updated", id |-> record_id]
        ELSE [kind |-> "failed", id |-> record_id, status |-> status, code |-> code,
              message |-> message, details |-> details]

\* The loop, lines 132-148: the reports printed and the exception that
\* stopped it ("none" when it ran to the end).
RECURSIVE ReportItems(_, _)
ReportItems(results, done) ==
    IF results = <<>> THEN [reports |-> done, exc |-> "none"]
    ELSE IF ItemFault(Head(results)) # "none"
         THEN [reports |-> done, exc |-> ItemFault(Head(results))]
         ELSE ReportItems(Tail(results), Append(done, ItemReport(Head(results))))

\* process_update_response: what it prints, the per-item reports, and the
\* exception it raises.
process_update_response(x) ==
    CASE UpdateResponseShape(x) = "TypeError" ->
            [printed |-> <<>>, reports |-> <<>>, exc |-> "TypeError"]
      [] UpdateResponseShape(x) = "unexpected" ->
            [printed |-> <<"Warning: Unexpected response format", "Raw Response">>,
             reports |-> <<>>, exc |-> "none"]
      [] UpdateResponseShape(x) = "list" ->
            LET r == ReportItems(x.v["data"].v, <<>>)
            IN  [printed |-> IF r.exc = "none"
                             THEN <<"--- Update Results ---", "--- End of Results ---">>
                             ELSE <<"--- Update Results ---">>,
                 reports |-> r.reports, exc |-> r.exc]

\* main(), line 176.
ProcessUpdateResponse ==
    /\ script = "update"
    /\ pc = "process"
    /\ reports' = process_update_response(response).reports
    /\ IF process_update_response(response).exc # "none"
       THEN Raise(process_update_response(response).exc,
                  process_update_response(response).printed)
       ELSE Continue("done", process_update_response(response).printed)
    /\ UNCHANGED <<script, CLIENT_ID, CLIENT_SECRET, REFRESH_TOKEN, folder, input_file,
                   lead_ids, answer, token_reply, access_token, http, response,
                   csv_file, json_file>>


(***************************************************************************)
(* fetch_leads.py                                                          *)
(***************************************************************************)
Absent == [exists |-> FALSE, complete |-> FALSE, header |-> {}, rows |-> <<>>]

\* main(), lines 88-90, outside the try block: os.makedirs may fail.
MakeOutputFolder ==
    /\ script = "fetch"
    /\ pc = "start"
    /\ IF folder
       THEN pc' = "token" /\ UNCHANGED <<folder, error>>
       ELSE \E made \in BOOLEAN :
              IF made
              THEN folder' = TRUE /\ pc' = "token" /\ UNCHANGED error
              ELSE /\ error' = [cls |-> "PermissionError", at |-> pc, clause |-> "uncaught"]
                   /\ pc' = "done"
                   /\ UNCHANGED folder
    /\ UNCHANGED <<script, CLIENT_ID, CLIENT_SECRET, REFRESH_TOKEN, input_file, lead_ids,
                   answer, token_reply, access_token, http, response, out, reports,
                   csv_file, json_file>>

FetchParams ==
    JObj([cvid |-> JStr(CUSTOM_VIEW_ID), per_page |-> JNum(RECORDS_PER_PAGE),
          page |-> JNum(1)])

\* fetch_leads_from_custom_view, called at main() lines 94-99.
FetchLeads(replies) ==
    /\ script = "fetch"
    /\ pc = "api"
    /\ http' = Append(http, [method |-> "GET", url |-> ZOHO_API_URL,
                             auth |-> access_token, body |-> FetchParams])
    /\ \E reply \in replies :
         IF RequestFault(reply) # "none"
         THEN Raise(RequestFault(reply), <<>>) /\ UNCHANGED response
         ELSE response' = reply.body /\ Continue("handle", <<>>)
    /\ UNCHANGED <<script, CLIENT_ID, CLIENT_SECRET, REFRESH_TOKEN, folder, input_file,
                   lead_ids, answer, token_reply, access_token, reports, csv_file,
                   json_file>>

\* The conditions of main(), lines 101 and 143, evaluated left to right:
\* "leads" (write the files), "noleads" (the elif branch), "nodata" (the
\* else branch) or "TypeError".
LeadsShapeAnyList(x) ==
    IF ~Truthy(x) THEN "nodata"
    ELSE IF Contains(x, "data") = "TypeError" THEN "TypeError"
    ELSE IF Contains(x, "data") = "no" THEN "noleads"
    ELSE IF ~Indexable(x) THEN "TypeError"
    ELSE IF x.v["data"].t # "list" THEN "noleads"
    ELSE "leads"

LeadsShape(x) ==
    IF ~Truthy(x) THEN "nodata"
    ELSE IF Contains(x, "data") = "TypeError" THEN "TypeError"
    ELSE IF Contains(x, "data") = "no" THEN "noleads"
    ELSE IF ~Indexable(x) THEN "TypeError"
    ELSE IF x.v["data"].t # "list" THEN "noleads"
    ELSE IF ~Truthy(x.v["data"]) THEN "noleads"
    ELSE "leads"

\* What opening and writing an output file of n records can do: succeed,
\* fail to open, or fail (OSError) once `after` records were written.
IoOutcomes(n) ==
    {[kind |-> "ok", after |-> n], [kind |-> "open_fails", after |-> 0]}
    \cup {[kind |-> "write_fails", after |-> k] : k \in 0..n}

\* csv.DictWriter, extrasaction='raise', restval='': one row.
RowFault(headers, rec) ==
    IF rec.t # "obj" THEN "AttributeError"
    ELSE IF DOMAIN rec.v \ headers # {} THEN "ValueError"
    ELSE "none"

CsvRow(headers, rec) == [h \in headers |-> Get(rec.v, h, JStr(""))]

\* writer.writerows(leads), stopped by the device after `limit` rows: the
\* rows written and the exception raised.
RECURSIVE WriteRows(_, _, _, _)
WriteRows(headers, leads, limit, done) ==
    IF leads = <<>> THEN [rows |-> done, exc |-> "none"]
    ELSE IF RowFault(headers, Head(leads)) # "none"
         THEN [rows |-> done, exc |-> RowFault(headers, Head(leads))]
    ELSE IF Len(done) >= limit THEN [rows |-> done, exc |-> "OSError"]
    ELSE WriteRows(headers, Tail(leads), limit, Append(done, CsvRow(headers, Head(leads))))

\* The with block of lines 113-116: the file left behind and the exception.
CsvWrite(leads, io) ==
    LET headers == DOMAIN leads[1].v
        w == WriteRows(headers, leads, IF io.kind = "ok" THEN Len(leads) ELSE io.after, <<>>)
    IN  IF io.kind = "open_fails" THEN [file |-> Absent, exc |-> "OSError"]
        ELSE IF w.exc = "none" /\ io.kind = "write_fails"
        THEN [file |-> [exists |-> TRUE, complete |-> FALSE, header |-> headers,
                        rows |-> w.rows], exc |-> "OSError"]
        ELSE [file |-> [exists |-> TRUE, complete |-> w.exc = "none", header |-> headers,
                        rows |-> w.rows], exc |-> w.exc]

\* The except clauses around the CSV write (lines 119-124) and around the
\* JSON write (lines 135-140).  IOError is OSError.
CsvClausesIOErrorOnly == <<"OSError">>
CsvClauses == <<"OSError", "Exception">>
JsonClauses == <<"OSError", "Exception">>

CsvMessage ==
    [none |-> "Successfully wrote leads to CSV",
     OSError |-> "Error writing to CSV file",
     Exception |-> "An unexpected error occurred during CSV writing"]

JsonMessage ==
    [none |-> "Successfully wrote leads to JSON",
     OSError |-> "Error writing to JSON file",
     Exception |-> "An unexpected error occurred during JSON writing"]

\* headers = list(leads[0].keys()), line 110: the exception it raises.
HeaderFault(leads) ==
    IF leads = <<>> THEN "IndexError"
    ELSE IF leads[1].t # "obj" THEN "AttributeError"
    ELSE "none"

\* What the clauses around a file write do with its outcome: propagate
\* the exception to main() when no clause takes it, else print and go on.
AfterWrite(exc, clauses, message, next) ==
    IF exc = "none" THEN Continue(next, <<message["none"]>>)
    ELSE IF FirstClause(exc, clauses) = "uncaught" THEN Raise(exc, <<>>)
    ELSE Continue(next, <<message[FirstClause(exc, clauses)]>>)

\* main(), lines 101-125 and 143-152: the branch on the response, the CSV
\* headers and the CSV write.
WriteCsv ==
    /\ script = "fetch"
    /\ pc = "handle"
    /\ CASE LeadsShape(response) = "nodata" ->
              Continue("done", <<"No data returned from the API.">>) /\ UNCHANGED csv_file
         [] LeadsShape(response) = "noleads" ->
              Continue("done", <<"API response received, but no leads found in the expected format.">>)
              /\ UNCHANGED csv_file
         [] LeadsShape(response) = "TypeError" ->
              Raise("TypeError", <<>>) /\ UNCHANGED csv_file
         [] LeadsShape(response) = "leads" ->
              LET leads == response.v["data"].v
              IN  IF HeaderFault(leads) # "none"
                  THEN Raise(HeaderFault(leads), <<>>) /\ UNCHANGED csv_file
                  ELSE \E io \in IoOutcomes(Len(leads)) :
                         /\ csv_file' = CsvWrite(leads, io).file
                         /\ AfterWrite(CsvWrite(leads, io).exc, CsvClauses, CsvMessage, "json")
    /\ UNCHANGED <<script, CLIENT_ID, CLIENT_SECRET, REFRESH_TOKEN, folder, input_file,
                   lead_ids, answer, token_reply, access_token, http, response, reports,
                   json_file>>

\* json.dump(leads, jsonfile) inside the with block of lines 130-132.
JsonWrite(leads, io) ==
    CASE io.kind = "open_fails" -> [file |-> Absent, exc |-> "OSError"]
      [] io.kind = "write_fails" ->
            [file |-> [exists |-> TRUE, complete |-> FALSE, header |-> {},
                       rows |-> SubSeq(leads, 1, io.after)], exc |-> "OSError"]
      [] io.kind = "ok" ->
            [file |-> [exists |-> TRUE, complete |-> TRUE, header |-> {}, rows |-> leads],
             exc |-> "none"]

\* main(), lines 127-141.
WriteJson ==
    /\ script = "fetch"
    /\ pc = "json"
    /\ \E io \in IoOutcomes(Len(response.v["data"].v)) :
         /\ json_file' = JsonWrite(response.v["data"].v, io).file
         /\ AfterWrite(JsonWrite(response.v["data"].v, io).exc, JsonClauses, JsonMessage, "done")
    /\ UNCHANGED <<script, CLIENT_ID, CLIENT_SECRET, REFRESH_TOKEN, folder, input_file,
                   lead_ids, answer, token_reply, access_token, http, response, reports,
                   csv_file>>


(***************************************************************************)
(* The inputs of a run.  Each specification below runs both scripts; they  *)
(* differ in which input is drawn from its full bounded set (the others    *)
(* are drawn from a few representative values).                            *)
(***************************************************************************)
CredValues == {None, JStr(""), JStr("x")}
AllCreds == CredValues \X CredValues \X CredValues
FewCreds == {<<JStr("x"), JStr("x"), JStr("x")>>, <<JStr("x"), JStr("x"), JStr("")>>,
             <<None, JStr("x"), JStr("x")>>}

LineChars == {"1", " "}
AllFiles == SeqsUpTo(SeqsUpTo(LineChars, MaxLineLen), MaxLines)
FewFiles == {<<>>, << <<"1">> >>, << <<" ", "1">>, <<>> >>}

AnswerChars == {"y", "Y", "e", "s", " "}
AllAnswers == SeqsUpTo(AnswerChars, MaxAnswerLen)
FewAnswers == {<<"y", "e", "s">>, <<"Y", "E", "S">>, <<"n", "o">>, <<>>}

Unset == [t |-> "unset"]
NoReply == Reply(0, FALSE, Unset)

\* Replies that are not a 2xx reply with a JSON body.
FaultReplies ==
    {Reply(0, FALSE, None), Reply(401, TRUE, JObj([code |-> JStr("INVALID_TOKEN")])),
     Reply(503, FALSE, None), Reply(200, FALSE, None)}

TokenReplies ==
    FaultReplies
    \cup {Reply(200, TRUE, b) :
            b \in {JObj(NoKeys), JObj([error |-> JStr("invalid_code")]),
                   JObj([access_token |-> None]), JObj([access_token |-> JStr("")]),
                   JObj([access_token |-> JStr("X")]), JList(<<>>), None}}

\* Update Result Items: status, code and details each absent or present.
NotThere == [t |-> "absent"]

ResultItem(status, code, details) ==
    LET f == [status |-> status, code |-> code, details |-> details,
              message |-> IF status = JStr("error") THEN JStr("bad") ELSE NotThere]
    IN  JObj([k \in {x \in DOMAIN f : f[x] # NotThere} |-> f[k]])

ResultItems ==
    {ResultItem(s, c, d) :
        s \in {NotThere, JStr("success"), JStr("error")},
        c \in {NotThere, JStr("SUCCESS"), JStr("INVALID_DATA")},
        d \in {NotThere, None, JObj([id |-> JStr("7")])}}
    \cup {JStr("oops")}

\* Parsed bodies that carry no data list.
OddBodies ==
    {None, JNum(5), JObj(NoKeys), JObj([code |-> JStr("x")]), JList(<<>>),
     JList(<<JStr("data")>>), JObj([data |-> None]), JObj([data |-> JStr("x")]),
     JObj([data |-> JObj(NoKeys)])}

DataBody(q) == JObj([data |-> JList(q)])

AllUpdateReplies ==
    FaultReplies
    \cup {Reply(200, TRUE, b) : b \in OddBodies}
    \cup {Reply(200, TRUE, DataBody(q)) : q \in SeqsUpTo(ResultItems, MaxItems)}

FewUpdateReplies ==
    FaultReplies
    \cup {Reply(200, TRUE, b) :
            b \in {JObj(NoKeys),
                   DataBody(<<ResultItem(JStr("success"), JStr("SUCCESS"), JObj([id |-> JStr("7")]))>>),
                   DataBody(<<ResultItem(JStr("error"), JStr("INVALID_DATA"), JObj([id |-> JStr("7")]))>>)}}

\* Lead Records: objects over the fields id and Last_Name, and a non-object.
LeadRecords ==
    {JObj(NoKeys), JObj([id |-> JStr("1")]), JObj([id |-> JStr("2")]),
     JObj([Last_Name |-> JStr("A")]), JObj([id |-> JStr("1"), Last_Name |-> JStr("A")]),
     JObj([id |-> JStr("2"), Last_Name |-> JStr("B")]), JStr("oops")}

AllLeadReplies ==
    FaultReplies
    \cup {Reply(200, TRUE, b) : b \in OddBodies}
    \cup {Reply(200, TRUE, DataBody(q)) : q \in SeqsUpTo(LeadRecords, MaxLeads)}

FewLeadReplies ==
    FaultReplies
    \cup {Reply(200, TRUE, b) :
            b \in {JObj(NoKeys), DataBody(<<>>),
                   DataBody(<<JObj([id |-> JStr("1"), Last_Name |-> JStr("A")])>>)}}

(***************************************************************************)
(* Specifications.                                                         *)
(***************************************************************************)
InitWith(creds) ==
    /\ script \in {"fetch", "update"}
    /\ \E c \in creds : CLIENT_ID = c[1] /\ CLIENT_SECRET = c[2] /\ REFRESH_TOKEN = c[3]
    /\ folder \in BOOLEAN
    /\ pc = "start"
    /\ input_file = <<>>
    /\ lead_ids = <<>>
    /\ answer = <<>>
    /\ token_reply = NoReply
    /\ access_token = None
    /\ http = <<>>
    /\ response = Unset
    /\ out = <<>>
    /\ reports = <<>>
    /\ csv_file = Absent
    /\ json_file = Absent
    /\ error = NoError

NextWith(files, answers, updateReplies, leadReplies) ==
    \/ MakeOutputFolder
    \/ ReadLeadIds(files)
    \/ Confirm(answers)
    \/ GetAccessToken(TokenReplies)
    \/ FetchLeads(leadReplies)
    \/ UpdateLeadStatuses(updateReplies)
    \/ ProcessUpdateResponse
    \/ WriteCsv
    \/ WriteJson

\* Every combination of credentials; the other inputs from the small sets.
Init == InitWith(AllCreds)
Next == NextWith(FewFiles, FewAnswers, FewUpdateReplies, FewLeadReplies)
Spec == Init /\ [][Next]_vars

\* Every answer of the operator.
InitFew == InitWith(FewCreds)
NextConfirm == NextWith(FewFiles, AllAnswers, FewUpdateReplies, FewLeadReplies)
SpecConfirm == InitFew /\ [][NextConfirm]_vars

\* Every ID file.
NextIds == NextWith(AllFiles, FewAnswers, FewUpdateReplies, FewLeadReplies)
SpecIds == InitFew /\ [][NextIds]_vars

\* Every update response.
NextUpdate == NextWith(FewFiles, FewAnswers, AllUpdateReplies, FewLeadReplies)
SpecUpdate == InitFew /\ [][NextUpdate]_vars

\* Every export response.
NextExport == NextWith(FewFiles, FewAnswers, FewUpdateReplies, AllLeadReplies)
SpecExport == InitFew /\ [][NextExport]_vars


(***************************************************************************)
(* Properties.                                                             *)
(***************************************************************************)
Last(q) == q[Len(q)]
Posts == {i \in 1..Len(http) : http[i].method = "POST"}
ApiCalls == {i \in 1..Len(http) : http[i].method \in {"GET", "PUT"}}
NoFiles == csv_file = Absent /\ json_file = Absent

\* The operator has answered the prompt of the update script.
Answered ==
    script = "update" /\ lead_ids # <<>> /\ pc # "prompt" /\ error.at # "prompt"

\* a is "yes" up to the case of its letters.
ExactlyYes(a) ==
    Len(a) = 3 /\ a[1] \in {"y", "Y"} /\ a[2] \in {"e", "E"} /\ a[3] \in {"s", "S"}

\* C1: in the update script, after any answer to the confirmation prompt
\* that is not exactly "yes" up to case, the run has ended with the
\* cancellation message and no HTTP request was ever issued.
C1_NoCallUnlessYes ==
    (Answered /\ ~ExactlyYes(answer)) =>
        /\ pc = "done"
        /\ http = <<>>
        /\ error = NoError
        /\ Last(out) = "Operation cancelled by user."

C1_Witness ==
    /\ Answered
    /\ answer = <<"y", "e", "s", " ">>
    /\ pc = "done"
    /\ http = <<>>

CredentialMissing ==
    \E c \in {CLIENT_ID, CLIENT_SECRET, REFRESH_TOKEN} : c = None \/ c = JStr("")

\* main() has called get_access_token and it has returned or raised.
TokenStepTaken ==
    /\ pc \notin {"start", "prompt", "token"}
    /\ error.at \notin {"start", "prompt"}
    /\ script = "update" => (Answered /\ ExactlyYes(answer))

\* C2: in both scripts, when a credential is absent or empty no HTTP request
\* is ever issued, and get_access_token, once called, has failed with the
\* ValueError that main() reports as a configuration error.
C2_MissingCredentialNoCall ==
    CredentialMissing =>
        /\ http = <<>>
        /\ access_token = None
        /\ TokenStepTaken =>
             /\ pc = "done"
             /\ error = [cls |-> "ValueError", at |-> "token", clause |-> "ValueError"]
             /\ Last(out) = "Configuration Error"

C2_Witness ==
    /\ script = "update"
    /\ CLIENT_ID = JStr("x") /\ CLIENT_SECRET = JStr("") /\ REFRESH_TOKEN = JStr("x")
    /\ TokenStepTaken
    /\ http = <<>>

\* The token endpoint answered with an access token.
TokenGranted ==
    /\ token_reply.status = 200
    /\ token_reply.json
    /\ token_reply.body.t = "obj"
    /\ "access_token" \in DOMAIN token_reply.body.v
    /\ token_reply.body.v["access_token"] \notin {None, JStr("")}

\* The token endpoint answered non-2xx, or 2xx with a JSON object that has
\* no (non-empty) access_token.
TokenRefused ==
    \/ token_reply.status \in {401, 503}
    \/ /\ token_reply.status = 200 /\ token_reply.json /\ token_reply.body.t = "obj"
       /\ ~TokenGranted

\* C3: with all credentials present, a token exchange refused by the
\* endpoint (non-2xx, or success without an access_token) is reported by
\* main() as a failure of another kind than the configuration error.
C3_AuthErrorDistinct ==
    (~CredentialMissing /\ error.at = "token" /\ TokenRefused) =>
        /\ error.clause \notin {"ValueError", "uncaught"}
        /\ Last(out) # "Configuration Error"


\* The line holds nothing but whitespace.
Blank(line) == \A j \in 1..Len(line) : line[j] = " "

\* t is the line without its leading and trailing whitespace.
IsTrimOf(t, line) ==
    /\ t # <<>>
    /\ t[1] # " "
    /\ t[Len(t)] # " "
    /\ \E a \in 0..Len(line) :
         /\ a + Len(t) <= Len(line)
         /\ SubSeq(line, a + 1, a + Len(t)) = t
         /\ \A j \in (1..a) \cup ((a + Len(t) + 1)..Len(line)) : line[j] = " "

\* The lines of the ID file that are not blank, and the place of line i
\* among them.
KeptLines == {i \in 1..Len(input_file) : ~Blank(input_file[i])}
Rank(i) == Cardinality({j \in KeptLines : j <= i})

\* The body of request r is {data: L} with one item {id: trimmed line,
\* Lead_Status: "Junk Lead"} per non-blank line of the ID file, in order.
PutBodyMatchesFile(r) ==
    /\ r.body.t = "obj"
    /\ DOMAIN r.body.v = {"data"}
    /\ r.body.v["data"].t = "list"
    /\ LET L == r.body.v["data"].v
       IN  /\ Len(L) = Cardinality(KeptLines)
           /\ \A i \in KeptLines :
                /\ L[Rank(i)].t = "obj"
                /\ DOMAIN L[Rank(i)].v = {"id", "Lead_Status"}
                /\ L[Rank(i)].v["Lead_Status"] = JStr("Junk Lead")
                /\ IsTrimOf(L[Rank(i)].v["id"].v, input_file[i])

\* C4: in the update script the PUT request, issued once the operator has
\* confirmed and a token was obtained, is the only one, and its body is
\* {data: L} with exactly one item {id: <trimmed line>, Lead_Status: "Junk
\* Lead"} per non-blank line of the ID file, in file order, duplicates kept.
C4_PutBodyFromFile ==
    script = "update" =>
        /\ Cardinality(ApiCalls) <= 1
        /\ \A i \in ApiCalls : http[i].method = "PUT" /\ PutBodyMatchesFile(http[i])
        /\ (pc = "process" \/ response # Unset \/ error.at = "api") => ApiCalls # {}

C4_Witness ==
    /\ script = "update"
    /\ input_file = << <<" ", "1">>, <<" ">> >>
    /\ ApiCalls # {}
    /\ http[2].body = JObj([data |-> JList(<<JObj([id |-> JText(<<"1">>),
                                                    Lead_Status |-> JStr("Junk Lead")])>>)])

\* process_update_response has run on a response that holds a data list.
ProcessedList ==
    /\ script = "update"
    /\ pc = "done"
    /\ response.t = "obj"
    /\ "data" \in DOMAIN response.v
    /\ response.v["data"].t = "list"

\* The item carries status "success" and code "SUCCESS".
SaysSuccess(item) ==
    /\ item.t = "obj"
    /\ "status" \in DOMAIN item.v /\ item.v["status"] = JStr("success")
    /\ "code" \in DOMAIN item.v /\ item.v["code"] = JStr("SUCCESS")

\* The report is the failure report of the item: the server's status, code,
\* message and details (None for a field the item lacks).
FailureReportOf(report, item) ==
    /\ report.kind = "failed"
    /\ item.t = "obj"
    /\ \A k \in {"status", "code", "message"} :
         report[k] = IF k \in DOMAIN item.v THEN item.v[k] ELSE None
    /\ "details" \in DOMAIN item.v => report.details = item.v["details"]

\* C5: process_update_response reports every item of the data list, in
\* order, as succeeded exactly when its status is "success" and its code is
\* "SUCCESS" and as failed with the server's fields otherwise; the run does
\* not end in an error.
C5_EveryItemReported ==
    ProcessedList =>
        /\ error = NoError
        /\ Len(reports) = Len(response.v["data"].v)
        /\ \A i \in 1..Len(reports) :
             IF SaysSuccess(response.v["data"].v[i])
             THEN reports[i].kind = "updated"
             ELSE FailureReportOf(reports[i], response.v["data"].v[i])

\* The same for a data list of well-formed items (objects whose details, when
\* present, is an object): the part of C5 the code does satisfy.
WellFormedItem(item) ==
    /\ item.t = "obj"
    /\ "details" \in DOMAIN item.v => item.v["details"].t = "obj"

WellFormedItemsReported ==
    (ProcessedList /\ \A i \in 1..Len(response.v["data"].v) :
                          WellFormedItem(response.v["data"].v[i])) =>
        /\ error = NoError
        /\ Len(reports) = Len(response.v["data"].v)
        /\ \A i \in 1..Len(reports) :
             IF SaysSuccess(response.v["data"].v[i])
             THEN reports[i].kind = "updated"
             ELSE FailureReportOf(reports[i], response.v["data"].v[i])

\* The export script has handled the parsed response body.
ExportHandled == script = "fetch" /\ response # Unset /\ pc = "done"

\* The body is an object with no data key, an empty data list, or a data
\* value that is not a list.
NoLeadList(x) ==
    /\ x.t = "obj"
    /\ \/ "data" \notin DOMAIN x.v
       \/ x.v["data"].t # "list"
       \/ x.v["data"].v = <<>>

NoLeadsMessage == "API response received, but no leads found in the expected format."
NoDataMessage == "No data returned from the API."

\* C6 as stated: for every such body, the empty object included, no file is
\* written and the "no leads found" message is reported.
C6_NoLeadsFoundMessage ==
    (ExportHandled /\ NoLeadList(response)) =>
        /\ NoFiles
        /\ out = <<NoLeadsMessage>>

\* C6 (amended): for every such body no file is written and the run ends
\* without error; the "no leads found" message is reported when the body is
\* a non-empty object, and "No data returned from the API." when the body is
\* the empty object.
C6_NoFilesWritten ==
    (ExportHandled /\ NoLeadList(response)) =>
        /\ NoFiles
        /\ error = NoError
        /\ out = IF response = JObj(NoKeys) THEN <<NoDataMessage>> ELSE <<NoLeadsMessage>>

C6_Witness ==
    /\ ExportHandled
    /\ response = JObj(NoKeys)
    /\ NoFiles
    /\ out = <<NoDataMessage>>

\* C7: no exception leaves main() uncaught: every failure of the run is
\* taken by a clause of main() (or handled before) and reported.
C7_NothingEscapesMain ==
    /\ error.clause # "uncaught"
    /\ error # NoError => Last(out) = MainMessage(error.clause)

\* The update response has no usable data array: the body is empty or null,
\* has no data key, has a data value that is not a list, or has a data list
\* with an item that is not a well-formed result object.
MalformedUpdateResponse(x) ==
    \/ x = None
    \/ /\ x.t = "obj"
       /\ \/ "data" \notin DOMAIN x.v
          \/ x.v["data"].t # "list"
          \/ \E i \in 1..Len(x.v["data"].v) : ~WellFormedItem(x.v["data"].v[i])

\* C8: on every such response process_update_response prints the
\* unexpected-format warning and the raw body, and returns without raising.
C8_MalformedIsWarning ==
    (script = "update" /\ pc = "done" /\ MalformedUpdateResponse(response)) =>
        /\ error = NoError
        /\ reports = <<>>
        /\ Len(out) >= 2
        /\ SubSeq(out, Len(out) - 1, Len(out))
             = <<"Warning: Unexpected response format", "Raw Response">>

\* The same for a response whose data is missing or not a list: the part of
\* C8 the code does satisfy.
MissingDataIsWarning ==
    (script = "update" /\ pc = "done"
       /\ (response = None \/ (response.t = "obj" /\ ("data" \notin DOMAIN response.v
                                                      \/ response.v["data"].t # "list")))) =>
        /\ error = NoError
        /\ reports = <<>>
        /\ SubSeq(out, Len(out) - 1, Len(out))
             = <<"Warning: Unexpected response format", "Raw Response">>

\* C9: a run is one linear pass: at most one token POST and at most one API
\* request; the API request comes second, after a token POST that was
\* granted, carries that token and is the script's own method; after a
\* failed token exchange or a failed API request the run is over with no
\* further request, no response processed, no report and no file.
C9_LinearNoRetry ==
    /\ Cardinality(Posts) <= 1
    /\ Cardinality(ApiCalls) <= 1
    /\ \A i \in Posts : i = 1
    /\ \A i \in ApiCalls :
         /\ i = 2
         /\ http[1].method = "POST"
         /\ TokenGranted
         /\ http[i].auth = token_reply.body.v["access_token"]
         /\ http[i].method = IF script = "fetch" THEN "GET" ELSE "PUT"
    /\ (token_reply # NoReply /\ ~TokenGranted) =>
         /\ pc = "done" /\ error.at = "token" /\ Len(http) = 1
         /\ response = Unset /\ reports = <<>> /\ NoFiles
    /\ error.at = "api" =>
         /\ pc = "done" /\ Len(http) = 2
         /\ response = Unset /\ reports = <<>> /\ NoFiles

C9_Witness ==
    /\ error.at = "api"
    /\ error.cls = "HTTPError"
    /\ Len(http) = 2
    /\ pc = "done"

\* The export response holds a non-empty data list whose first record is an
\* object, so that the CSV write is attempted.
HasLeads ==
    /\ script = "fetch"
    /\ response.t = "obj"
    /\ "data" \in DOMAIN response.v
    /\ response.v["data"].t = "list"
    /\ response.v["data"].v # <<>>
    /\ response.v["data"].v[1].t = "obj"

CsvMessages ==
    {"Successfully wrote leads to CSV", "Error writing to CSV file",
     "An unexpected error occurred during CSV writing"}

JsonMessages ==
    {"Successfully wrote leads to JSON", "Error writing to JSON file",
     "An unexpected error occurred during JSON writing"}

\* C10: once the CSV write is attempted, whatever its outcome is reported
\* and the JSON write is attempted next with the full list; whatever the
\* outcome of the JSON write, it is reported, the CSV file stays as the CSV
\* write left it, and the run ends without error.
C10_WritesIndependent ==
    (HasLeads /\ pc \in {"json", "done"}) =>
        /\ error = NoError
        /\ Len(out) = IF pc = "json" THEN 1 ELSE 2
        /\ out[1] \in CsvMessages
        /\ (out[1] = "Successfully wrote leads to CSV") <=> csv_file.complete
        /\ (out[1] = "An unexpected error occurred during CSV writing") =>
              (csv_file.exists /\ Len(csv_file.rows) < Len(response.v["data"].v))
        /\ pc = "json" => json_file = Absent
        /\ pc = "done" =>
              /\ out[2] \in JsonMessages
              /\ (out[2] = "Successfully wrote leads to JSON") <=>
                    (json_file.complete /\ json_file.rows = response.v["data"].v)
              /\ json_file.complete \/ out[2] = "Error writing to JSON file"

C10_Witness ==
    /\ HasLeads
    /\ pc = "done"
    /\ out = <<"An unexpected error occurred during CSV writing",
               "Successfully wrote leads to JSON">>
    /\ json_file.rows = response.v["data"].v
    /\ Len(response.v["data"].v) = 2

====
